---- MODULE Spec2Model ----
(***************************************************************************)
(* BeVec: a unifying adapter layer over the Pinecone and Chroma vector     *)
(* database SDKs.  The model covers the provider registry                  *)
(* (bevec/core/registry.py) and the two adapters                           *)
(* (bevec/providers/{pinecone,chroma}/adapter.py).                         *)
(*                                                                         *)
(* A call is one atomic action: it runs the whole handler and leaves the   *)
(* observable outcome of the call (exception kind and message, returned    *)
(* value, the provider calls it issued) in `last`.  Return hands the       *)
(* outcome to the caller and makes the next call possible.                 *)
(***************************************************************************)
EXTENDS Integers, Sequences, FiniteSets, TLC

\* ---------------------------------------------------------------- bounds
MaxNameLen == 2      \* longest provider name, in characters
MaxProviders == 2    \* most entries the registry is filled with
MaxBatch == 2        \* longest batch handed to upsert
MaxTopK == 2         \* largest top_k handed to query
MaxMatches == 2      \* longest canned provider response
MaxVecLen == 2       \* longest query vector

VARIABLES
    providers,   \* registry._providers: insertion-ordered dict, as a sequence of entries
    adapter,     \* which adapter the client under test is: "pinecone" or "chroma"
    colls,       \* provider side: collection/index name -> stored records (id -> record)
    handles,     \* names for which the caller holds a PineconeIndex / ChromaCollection
    canned,      \* response of a stubbed collection.query, or NoResponse
    upserted,    \* history: name -> id -> the record of the latest successful upsert of id
    registered,  \* history: the names given to register, in the order of their first use
    threads,     \* concurrent get_or_create_collection calls: thread -> position and locals
    last         \* the call in progress: operation, arguments, outcome, provider calls

vars == <<providers, adapter, colls, handles, canned, upserted, registered, threads, last>>

\* ------------------------------------------------------------ Python values
RECURSIVE SeqsUpTo(_, _)
\* all sequences over S of length 0..n
SeqsUpTo(S, n) ==
    IF n = 0 THEN {<<>>}
    ELSE LET shorter == SeqsUpTo(S, n - 1)
         IN  shorter \cup {Append(s, x) : s \in {t \in shorter : Len(t) = n - 1}, x \in S}

Range(s) == {s[i] : i \in DOMAIN s}

\* No call in progress.
Idle == [op |-> "idle"]

\* The outcome of a call that returned normally, and of one that raised.
Returned(value) == [kind |-> "ok", msg |-> <<>>, value |-> value]
Raised(kind, msg) == [kind |-> kind, msg |-> msg, value |-> "None"]

\* ------------------------------------------------------------------ registry
\* str.lower(), character by character.
Alphabet == {"a", "A"}
LowerChar(c) == IF c = "A" THEN "a" ELSE c
Lower(name) == [i \in DOMAIN name |-> LowerChar(name[i])]

Names == SeqsUpTo(Alphabet, MaxNameLen) \ {<<>>}
Classes == {"Pinecone", "Chroma"}

\* dict operations on the insertion-ordered dict _providers
Keys(d) == [i \in DOMAIN d |-> d[i].name]
HasKey(d, name) == \E i \in DOMAIN d : d[i].name = name
Lookup(d, name) == d[CHOOSE i \in DOMAIN d : d[i].name = name].cls
\* SetItem that moves an overwritten key to the end
SetItem_MoveToEnd(d, name, cls) ==
    Append(SelectSeq(d, LAMBDA e : e.name # name), [name |-> name, cls |-> cls])

\* d[name] = cls: an existing key keeps its position, a new key is appended
SetItem(d, name, cls) ==
    IF HasKey(d, name)
    THEN [i \in DOMAIN d |-> IF d[i].name = name THEN [name |-> name, cls |-> cls] ELSE d[i]]
    ELSE Append(d, [name |-> name, cls |-> cls])

\* RegistryRegister that starts the registry afresh with the one entry
RegistryRegister_Forgets(d, name, cls) == <<[name |-> name, cls |-> cls]>>

\* RegistryRegister that stores cls under the lower-cased name
RegistryRegister_Lowered(d, name, cls) ==
    IF HasKey(d, Lower(name))
    THEN [i \in DOMAIN d |->
             IF d[i].name = Lower(name) THEN [name |-> Lower(name), cls |-> cls] ELSE d[i]]
    ELSE Append(d, [name |-> Lower(name), cls |-> cls])

\* ProviderRegistry.register(name)(cls): the decorator stores cls under name as given
RegistryRegister(d, name, cls) == SetItem(d, name, cls)

\* ProviderRegistry.get(name)
RegistryGet(d, name) ==
    IF ~HasKey(d, name)
    THEN Raised("KeyError", <<"Provider '", name, "' not found">>)
    ELSE Returned(Lookup(d, name))

\* GetProvider that delegates to registry.get and so raises its KeyError
GetProvider_ViaGet(d, name) == RegistryGet(d, Lower(name))

\* get_provider(name)
GetProviderLookupName(name) == Lower(name)
GetProvider(d, name) ==
    LET lname == GetProviderLookupName(name)
    IN  IF ~HasKey(d, lname)
        THEN Raised("ValueError", <<"Unsupported provider: ", lname>>)
        ELSE Returned(Lookup(d, lname))

\* list_providers()
ListProviders(d) == Returned(Keys(d))

\* register_provider(name)(cls) on the global registry
register(name, cls) ==
    /\ last = Idle
    /\ HasKey(providers, name) \/ Len(providers) < MaxProviders
    /\ providers' = RegistryRegister(providers, name, cls)
    /\ last' = [op |-> "register", name |-> name, cls |-> cls, before |-> providers,
                out |-> Returned(cls)]
    /\ registered' = IF name \in Range(registered) THEN registered
                     ELSE Append(registered, name)
    /\ UNCHANGED <<adapter, colls, handles, canned, upserted, threads>>

\* registry.get(name) on the global registry
get(name) ==
    /\ last = Idle
    /\ last' = [op |-> "get", name |-> name, before |-> providers,
                out |-> RegistryGet(providers, name)]
    /\ UNCHANGED <<providers, adapter, colls, handles, canned, upserted, registered, threads>>

get_provider(name) ==
    /\ last = Idle
    /\ last' = [op |-> "get_provider", name |-> name, before |-> providers,
                out |-> GetProvider(providers, name)]
    /\ UNCHANGED <<providers, adapter, colls, handles, canned, upserted, registered, threads>>

list_providers ==
    /\ last = Idle
    /\ last' = [op |-> "list_providers", before |-> providers,
                out |-> ListProviders(providers)]
    /\ UNCHANGED <<providers, adapter, colls, handles, canned, upserted, registered, threads>>

\* The caller takes the outcome of the call.
Return ==
    /\ last # Idle
    /\ last' = Idle
    /\ UNCHANGED <<providers, adapter, colls, handles, canned, upserted, registered, threads>>


\* ------------------------------------------------- records, vectors, messages
\* A Python object is a record tagged with its type.  A list element:
PyInt(n) == [t |-> "int", n |-> n]
PyBool(n) == [t |-> "bool", n |-> n]
StrElem == [t |-> "str", n |-> 0]
\* isinstance(x, (int, float)); bool is a subclass of int
IsNumber(x) == x.t \in {"int", "float", "bool"}

PyList(items) == [t |-> "list", items |-> items]
NotAList == [t |-> "str", items |-> <<>>]
IsList(v) == v.t = "list"

E(x, y) == <<PyInt(x), PyInt(y)>>
Embeddings == {E(1, 0), E(0, 1)}
Ids == {"1", "2"}
Metas == {"m1", "m2"}
Fields == {"id", "values", "metadata"}

\* A vector record as handed to upsert: a dict with some of the three fields, or
\* something that is no dict at all.
Dict(has, id, values, metadata) ==
    [t |-> "dict", has |-> has, id |-> id, values |-> values, metadata |-> metadata]
NotADict == [t |-> "str", has |-> {}, id |-> "", values |-> NotAList, metadata |-> ""]
IsDict(v) == v.t = "dict"

WellFormedRecords ==
    {Dict(Fields, id, PyList(e), m) : id \in Ids, e \in Embeddings, m \in Metas}
MalformedRecords ==
    {NotADict, Dict(Fields, "1", NotAList, "m1"), Dict({"id", "values"}, "1", NotAList, "m1")}
    \cup {Dict(has, "1", PyList(E(1, 0)), "m1") : has \in (SUBSET Fields) \ {Fields}}
RawRecords == WellFormedRecords \cup MalformedRecords
Batches == SeqsUpTo(RawRecords, MaxBatch)

QueryElems == {PyInt(0), PyInt(1), PyBool(1), StrElem}
QueryVectors == {NotAList} \cup {PyList(s) : s \in SeqsUpTo(QueryElems, MaxVecLen)}
TopKs == (-1) .. MaxTopK

\* str(i) for the indexes a batch can have
Digits == <<"0", "1", "2", "3", "4", "5", "6", "7", "8", "9">>
Str(i) == Digits[i + 1]

NoError == <<>>

\* --------------------------------------------- provider SDKs (the environment)
\* The wrapped SDK objects are not part of the repository.  A provider call
\* yields one of a set of outcomes: the exception it raises (or none), the
\* value it returns and the provider state it leaves.
NoExc == [type |-> "none", msg |-> ""]
Exc(type, msg) == [type |-> type, msg |-> msg]
Ok(ret, state) == [exc |-> NoExc, ret |-> ret, state |-> state]
\* void: what stands for the value a raising call does not return
FailWith(e, void, state) == [exc |-> e, ret |-> void, state |-> state]
Fail(e, state) == FailWith(e, "None", state)
\* Any call can fail for reasons of its own (network, authentication, ...).
OutageWith(void, state) == FailWith(Exc("ConnectionError", "connection refused"), void, state)
Outage(state) == OutageWith("None", state)
\* `except ValueError`
IsValueError(e) == e.type = "ValueError"

Put(f, k, v) == [x \in (DOMAIN f) \cup {k} |-> IF x = k THEN v ELSE f[x]]
Remove(f, k) == [x \in (DOMAIN f) \ {k} |-> f[x]]
Min(a, b) == IF a < b THEN a ELSE b

CollNames == {"", "c"}
Metrics == {"cosine", "euclidean", "dotproduct", "manhattan"}
Dimensions == {0, 1, 2}
EmptyColl(dim) == [dim |-> dim, recs |-> <<>>]

\* an embedding the provider can store or search with, in a collection of dimension dim
IsEmbedding(v, dim) ==
    /\ IsList(v)
    /\ Len(v.items) > 0
    /\ \A i \in DOMAIN v.items : IsNumber(v.items[i])
    /\ dim = 0 \/ Len(v.items) = dim

\* squared Euclidean distance between two numeric lists of the same length
RECURSIVE SqDist(_, _, _)
SqDist(u, v, i) ==
    IF i > Len(u) THEN 0
    ELSE (u[i].n - v[i].n) * (u[i].n - v[i].n) + SqDist(u, v, i + 1)
Distance(u, v) == SqDist(u, v, 1)

\* The k nearest stored ids, nearest first; equally near records in any order.
IsRanking(s, recs, q, k) ==
    /\ Len(s) = Min(k, Cardinality(DOMAIN recs))
    /\ \A i, j \in DOMAIN s : i < j =>
          /\ s[i] # s[j]
          /\ Distance(recs[s[i]].values, q) <= Distance(recs[s[j]].values, q)
    /\ \A x \in (DOMAIN recs) \ Range(s) : \A i \in DOMAIN s :
          Distance(recs[s[i]].values, q) <= Distance(recs[x].values, q)
Rankings(recs, q, k) ==
    {s \in SeqsUpTo(DOMAIN recs, Min(k, Cardinality(DOMAIN recs))) : IsRanking(s, recs, q, k)}

NotFound(name) == Exc("NotFoundException", "index not found")
NoSuchCollection(name) == Exc("ValueError", "Collection does not exist")

\* pinecone: client.list_indexes().names()
ProviderListIndexes(state) == {Ok(DOMAIN state, state), OutageWith({}, state)}

\* pinecone: client.create_index(name=, dimension=, metric=)
ProviderCreateIndex(state, name, dimension) ==
    {Outage(state)} \cup
    (IF name \in DOMAIN state
     THEN {Fail(Exc("PineconeApiException", "index already exists"), state)}
     ELSE {Ok("None", Put(state, name, EmptyColl(dimension)))})

\* pinecone: client.delete_index(name=)
ProviderDeleteIndex(state, name) ==
    {Outage(state)} \cup
    (IF name \in DOMAIN state
     THEN {Ok("None", Remove(state, name))}
     ELSE {Fail(NotFound(name), state)})

\* pinecone: client.Index(name)
ProviderIndex(state, name) ==
    {Outage(state)} \cup
    (IF name \in DOMAIN state THEN {Ok(name, state)} ELSE {Fail(NotFound(name), state)})

\* pinecone: index.upsert(vectors=[(id, values, metadata), ...]) inserts or replaces
RECURSIVE StoreTuples(_, _, _)
StoreTuples(recs, tuples, i) ==
    IF i > Len(tuples) THEN recs
    ELSE StoreTuples(Put(recs, tuples[i][1],
                         [values |-> tuples[i][2].items, metadata |-> tuples[i][3]]),
                     tuples, i + 1)
ProviderIndexUpsert(state, name, tuples) ==
    {Outage(state)} \cup
    (IF name \notin DOMAIN state THEN {Fail(NotFound(name), state)}
     ELSE IF tuples = <<>>
             \/ \E i \in DOMAIN tuples : ~IsEmbedding(tuples[i][2], state[name].dim)
     THEN {Fail(Exc("PineconeApiException", "bad request"), state)}
     ELSE {Ok("None", Put(state, name,
                          [dim |-> state[name].dim,
                           recs |-> StoreTuples(state[name].recs, tuples, 1)]))})

\* pinecone: index.query(vector=, top_k=) -> {"matches": [...]}
NoMatches == [matches |-> <<>>]
ProviderIndexQuery(state, name, vector, top_k) ==
    {OutageWith(NoMatches, state)} \cup
    (IF name \notin DOMAIN state THEN {FailWith(NotFound(name), NoMatches, state)}
     ELSE IF ~IsEmbedding(vector, state[name].dim) \/ top_k < 1
     THEN {FailWith(Exc("PineconeApiException", "bad request"), NoMatches, state)}
     ELSE LET recs == state[name].recs
          IN  {Ok([matches |-> [i \in DOMAIN s |->
                       [id |-> s[i],
                        score |-> 0 - Distance(recs[s[i]].values, vector.items),
                        metadata |-> recs[s[i]].metadata]]], state)
               : s \in Rankings(recs, vector.items, top_k)})

\* chroma: client.get_collection(name=)
ProviderGetCollection(state, name) ==
    {Outage(state)} \cup
    (IF name \in DOMAIN state THEN {Ok(name, state)}
     ELSE {Fail(NoSuchCollection(name), state)})

\* chroma: client.create_collection(name=, metadata=)
ProviderCreateCollection(state, name) ==
    {Outage(state)} \cup
    (IF name \in DOMAIN state
     THEN {Fail(Exc("UniqueConstraintError", "Collection already exists"), state)}
     ELSE {Ok(name, Put(state, name, EmptyColl(0)))})

\* chroma: client.delete_collection(name=)
ProviderDeleteCollection(state, name) ==
    {Outage(state)} \cup
    (IF name \in DOMAIN state THEN {Ok("None", Remove(state, name))}
     ELSE {Fail(NoSuchCollection(name), state)})

\* chroma: collection.add(ids=, embeddings=, metadatas=) stores the ids that are
\* new.  An id that is already stored keeps its record: depending on the SDK
\* version the call then raises or goes on without it.
RECURSIVE StoreNew(_, _, _)
StoreNew(recs, cols, i) ==
    IF i > Len(cols.ids) THEN recs
    ELSE StoreNew(IF cols.ids[i] \in DOMAIN recs THEN recs
                  ELSE Put(recs, cols.ids[i],
                           [values |-> cols.embeddings[i].items,
                            metadata |-> cols.metadatas[i]]),
                  cols, i + 1)
ProviderCollectionAdd(state, name, cols) ==
    {Outage(state)} \cup
    (IF name \notin DOMAIN state THEN {Fail(NoSuchCollection(name), state)}
     ELSE LET coll == state[name]
              dim == IF coll.dim = 0 /\ cols.embeddings # <<>> /\ IsList(cols.embeddings[1])
                     THEN Len(cols.embeddings[1].items) ELSE coll.dim
          IN  IF \/ cols.ids = <<>>
                 \/ \E i \in DOMAIN cols.embeddings : ~IsEmbedding(cols.embeddings[i], dim)
              THEN {Fail(Exc("ValueError", "invalid embeddings"), state)}
              ELSE IF \E i, j \in DOMAIN cols.ids : i # j /\ cols.ids[i] = cols.ids[j]
              THEN {Fail(Exc("DuplicateIDError", "Expected IDs to be unique"), state)}
              ELSE {Ok("None", Put(state, name,
                                   [dim |-> dim, recs |-> StoreNew(coll.recs, cols, 1)]))}
                   \cup (IF \E i \in DOMAIN cols.ids : cols.ids[i] \in DOMAIN coll.recs
                         THEN {Fail(Exc("IDAlreadyExistsError", "ID already exists"), state)}
                         ELSE {}))

\* The distance a Chroma response reports, in units of 1/One.
One == 10
\* chroma: collection.query(query_embeddings=[vector], n_results=, include=)
\* -> {"ids": [[...]], "metadatas": [[...]], "distances": [[...]]}; a stubbed
\* collection answers every query with its canned response.
NoResults == [ids |-> <<>>, metadatas |-> <<>>, distances |-> <<>>]
ProviderCollectionQuery(state, stub, name, vector, n_results) ==
    IF stub.stub
    THEN {Ok([ids |-> <<stub.ids>>, metadatas |-> <<stub.metadatas>>,
              distances |-> <<stub.distances>>], state)}
    ELSE
    {OutageWith(NoResults, state)} \cup
    (IF name \notin DOMAIN state THEN {FailWith(NoSuchCollection(name), NoResults, state)}
     ELSE IF ~IsEmbedding(vector, state[name].dim) \/ n_results < 1
     THEN {FailWith(Exc("ValueError", "invalid query"), NoResults, state)}
     ELSE LET recs == state[name].recs
          IN  {Ok([ids |-> <<s>>,
                   metadatas |-> <<[i \in DOMAIN s |-> recs[s[i]].metadata]>>,
                   distances |-> <<[i \in DOMAIN s |->
                                     One * Distance(recs[s[i]].values, vector.items)]>>],
                  state)
               : s \in Rankings(recs, vector.items, n_results)})

\* ------------------------------------------------------------- the adapters
\* What a call leaves for its caller: the outcome and the provider calls made.
Call(op, args, out, sent) == [op |-> op, args |-> args, out |-> out, sent |-> sent]
Sent(method, args, r) == [method |-> method, args |-> args, exc |-> r.exc, ret |-> r.ret]

\* PineconeCheckVector that looks for 'metadata' before it looks for 'values'
PineconeCheckVector_MetadataFirst(vector, i) ==
    IF ~IsDict(vector) THEN <<"Vector at index ", Str(i), " must be a dictionary">>
    ELSE IF "id" \notin vector.has THEN <<"Vector at index ", Str(i), " missing 'id' field">>
    ELSE IF "metadata" \notin vector.has
    THEN <<"Vector at index ", Str(i), " missing 'metadata' field">>
    ELSE IF "values" \notin vector.has
    THEN <<"Vector at index ", Str(i), " missing 'values' field">>
    ELSE IF ~IsList(vector.values) THEN <<"Vector values at index ", Str(i), " must be a list">>
    ELSE NoError

\* PineconeIndex.upsert: the checks of one vector, in the order of the code
PineconeCheckVector(vector, i) ==
    IF ~IsDict(vector) THEN <<"Vector at index ", Str(i), " must be a dictionary">>
    ELSE IF "id" \notin vector.has THEN <<"Vector at index ", Str(i), " missing 'id' field">>
    ELSE IF "values" \notin vector.has
    THEN <<"Vector at index ", Str(i), " missing 'values' field">>
    ELSE IF "metadata" \notin vector.has
    THEN <<"Vector at index ", Str(i), " missing 'metadata' field">>
    ELSE IF ~IsList(vector.values) THEN <<"Vector values at index ", Str(i), " must be a list">>
    ELSE NoError

\* PineconeIndex.upsert: the loop that builds formatted_vectors; i counts from 1
RECURSIVE PineconeFormatLoop(_, _, _)
PineconeFormatLoop(vectors, i, formatted_vectors) ==
    IF i > Len(vectors) THEN Returned(formatted_vectors)
    ELSE LET e == PineconeCheckVector(vectors[i], i - 1)
         IN  IF e # NoError
             THEN Raised("ValidationError",
                         <<"Error formatting vector at index ", Str(i - 1), ": ">> \o e)
             ELSE PineconeFormatLoop(vectors, i + 1,
                      Append(formatted_vectors,
                             <<vectors[i].id, vectors[i].values, vectors[i].metadata>>))

\* PineconeUpsertPrepare that formats the batch without its last record
PineconeUpsertPrepare_DropsLast(vectors) ==
    IF vectors = <<>> THEN Raised("ValidationError", <<"Vectors list cannot be empty">>)
    ELSE LET all == PineconeFormatLoop(vectors, 1, <<>>)
         IN  IF all.kind # "ok" THEN all
             ELSE Returned(SubSeq(all.value, 1, Len(all.value) - 1))

\* PineconeIndex.upsert up to the provider call
PineconeUpsertPrepare(vectors) ==
    IF vectors = <<>> THEN Raised("ValidationError", <<"Vectors list cannot be empty">>)
    ELSE PineconeFormatLoop(vectors, 1, <<>>)

\* PineconeIndex.upsert from the provider call on
PineconeUpsertOutcome(r) ==
    IF r.exc = NoExc THEN Returned("None")
    ELSE Raised("VectorOperationError", <<"Failed to upsert vectors: ", r.exc.msg>>)

\* PineconeQueryCheck with the bound on top_k off by one (top_k < 0)
PineconeQueryCheck_OffByOne(vector, top_k) ==
    IF ~IsList(vector) THEN <<"Query vector must be a list">>
    ELSE IF vector.items = <<>> THEN <<"Query vector cannot be empty">>
    ELSE IF ~(\A i \in DOMAIN vector.items : IsNumber(vector.items[i]))
    THEN <<"Query vector must contain only numbers">>
    ELSE IF top_k < 0 THEN <<"top_k must be greater than 0">>
    ELSE NoError

\* PineconeIndex.query: the checks of the arguments
PineconeQueryCheck(vector, top_k) ==
    IF ~IsList(vector) THEN <<"Query vector must be a list">>
    ELSE IF vector.items = <<>> THEN <<"Query vector cannot be empty">>
    ELSE IF ~(\A i \in DOMAIN vector.items : IsNumber(vector.items[i]))
    THEN <<"Query vector must contain only numbers">>
    ELSE IF top_k < 1 THEN <<"top_k must be greater than 0">>
    ELSE NoError

\* PineconeQueryArgs that leaves top_k at the default of 10
PineconeQueryArgs_DefaultTopK(vector, top_k) == [vector |-> vector, top_k |-> 10]

\* PineconeIndex.query: the arguments of self._index.query
PineconeQueryArgs(vector, top_k) == [vector |-> vector, top_k |-> top_k]

\* PineconeIndex.query from the provider call on
PineconeQueryOutcome(r) ==
    IF r.exc = NoExc THEN Returned(r.ret.matches)
    ELSE Raised("VectorOperationError", <<"Failed to query vectors: ", r.exc.msg>>)

\* ChromaCheckVector without the isinstance(vector["values"], list) check
ChromaCheckVector_NoListCheck(vector, i) ==
    IF ~IsDict(vector) THEN <<"Vector at index ", Str(i), " must be a dictionary">>
    ELSE IF "id" \notin vector.has THEN <<"Vector at index ", Str(i), " missing 'id' field">>
    ELSE IF "values" \notin vector.has
    THEN <<"Vector at index ", Str(i), " missing 'values' field">>
    ELSE IF "metadata" \notin vector.has
    THEN <<"Vector at index ", Str(i), " missing 'metadata' field">>
    ELSE NoError

\* ChromaCollection.upsert: the checks of one vector, in the order of the code
ChromaCheckVector(vector, i) ==
    IF ~IsDict(vector) THEN <<"Vector at index ", Str(i), " must be a dictionary">>
    ELSE IF "id" \notin vector.has THEN <<"Vector at index ", Str(i), " missing 'id' field">>
    ELSE IF "values" \notin vector.has
    THEN <<"Vector at index ", Str(i), " missing 'values' field">>
    ELSE IF "metadata" \notin vector.has
    THEN <<"Vector at index ", Str(i), " missing 'metadata' field">>
    ELSE IF ~IsList(vector.values) THEN <<"Vector values at index ", Str(i), " must be a list">>
    ELSE NoError

\* ChromaCollection.upsert: the loop that fills ids, embeddings, metadatas
RECURSIVE ChromaFormatLoop(_, _, _)
ChromaFormatLoop(vectors, i, cols) ==
    IF i > Len(vectors) THEN Returned(cols)
    ELSE LET e == ChromaCheckVector(vectors[i], i - 1)
         IN  IF e # NoError
             THEN Raised("ValidationError",
                         <<"Error formatting vector at index ", Str(i - 1), ": ">> \o e)
             ELSE ChromaFormatLoop(vectors, i + 1,
                      [ids |-> Append(cols.ids, vectors[i].id),
                       embeddings |-> Append(cols.embeddings, vectors[i].values),
                       metadatas |-> Append(cols.metadatas, vectors[i].metadata)])

\* ChromaCollection.upsert up to the provider call
ChromaUpsertPrepare(vectors) ==
    IF vectors = <<>> THEN Raised("ValidationError", <<"Vectors list cannot be empty">>)
    ELSE ChromaFormatLoop(vectors, 1, [ids |-> <<>>, embeddings |-> <<>>, metadatas |-> <<>>])

\* ChromaUpsertOutcome that drops the provider's message
ChromaUpsertOutcome_NoContext(r) ==
    IF r.exc = NoExc THEN Returned("None")
    ELSE Raised("VectorOperationError", <<"Failed to upsert vectors">>)

\* ChromaCollection.upsert from the provider call on
ChromaUpsertOutcome(r) ==
    IF r.exc = NoExc THEN Returned("None")
    ELSE Raised("VectorOperationError", <<"Failed to upsert vectors: ", r.exc.msg>>)

\* ChromaCollection.query: the checks of the arguments
ChromaQueryCheck(vector, top_k) ==
    IF ~IsList(vector) THEN <<"Query vector must be a list">>
    ELSE IF vector.items = <<>> THEN <<"Query vector cannot be empty">>
    ELSE IF ~(\A i \in DOMAIN vector.items : IsNumber(vector.items[i]))
    THEN <<"Query vector must contain only numbers">>
    ELSE IF top_k < 1 THEN <<"top_k must be greater than 0">>
    ELSE NoError

\* ChromaQueryArgs that asks for one result too few
ChromaQueryArgs_OneLess(vector, top_k) ==
    [query_embeddings |-> <<vector>>, n_results |-> top_k - 1,
     include |-> <<"metadatas", "distances">>]

\* ChromaCollection.query: the arguments of self._collection.query
ChromaQueryArgs(vector, top_k) ==
    [query_embeddings |-> <<vector>>, n_results |-> top_k,
     include |-> <<"metadatas", "distances">>]

\* ChromaScore clamped to the range [0, 1]
ChromaScore_Clamped(distance) ==
    IF One - distance < 0 THEN 0 ELSE IF One - distance > One THEN One ELSE One - distance

\* ChromaCollection.query: score = 1 - distance
ChromaScore(distance) == One - distance

\* ChromaCollection.query: the loop over results["ids"][0]; an index past the end
\* of metadatas[0] or distances[0] raises IndexError inside the try block
RECURSIVE ChromaFormatResults(_, _, _)
ChromaFormatResults(results, i, formatted_results) ==
    IF i > Len(results.ids[1]) THEN Returned(formatted_results)
    ELSE IF i > Len(results.metadatas[1]) \/ i > Len(results.distances[1])
    THEN Raised("VectorOperationError",
                <<"Failed to query vectors: ", "list index out of range">>)
    ELSE ChromaFormatResults(results, i + 1,
             Append(formatted_results,
                    [id |-> results.ids[1][i],
                     metadata |-> results.metadatas[1][i],
                     score |-> ChromaScore(results.distances[1][i])]))

\* ChromaCollection.query from the provider call on
ChromaQueryOutcome(r) ==
    IF r.exc = NoExc THEN ChromaFormatResults(r.ret, 1, <<>>)
    ELSE Raised("VectorOperationError", <<"Failed to query vectors: ", r.exc.msg>>)

\* ChromaLookupCreates with `except Exception` in place of `except ValueError`
ChromaLookupCreates_AnyException(r) == r.exc # NoExc

\* ChromaClient.get_or_create_collection: the outcome of the lookup alone, and
\* whether the lookup sends the handler on to create_collection
ChromaLookupCreates(r) == r.exc # NoExc /\ IsValueError(r.exc)
\* ChromaGetOrCreateOutcome that lets the provider's exception through
ChromaGetOrCreateOutcome_Unwrapped(r) ==
    IF r.exc = NoExc THEN Returned(r.ret)
    ELSE Raised(r.exc.type, <<r.exc.msg>>)

\* ChromaClient.get_or_create_collection: return ChromaCollection(collection),
\* or the outer except clause
ChromaGetOrCreateOutcome(r) ==
    IF r.exc = NoExc THEN Returned(r.ret)
    ELSE Raised("ProviderError", <<"Failed to get or create collection: ", r.exc.msg>>)

\* ChromaClient.delete_collection from the provider call on
ChromaDeleteOutcome(r) ==
    IF r.exc = NoExc \/ IsValueError(r.exc) THEN Returned("None")
    ELSE Raised("ProviderError", <<"Failed to delete collection: ", r.exc.msg>>)

\* Pinecone.list_indexes from the provider call on
PineconeListOutcome(r) ==
    IF r.exc = NoExc THEN Returned(r.ret)
    ELSE Raised("ProviderError", <<"Failed to list indexes: ", r.exc.msg>>)

\* Pinecone.create_index: the checks of the arguments
ValidMetrics == {"cosine", "euclidean", "dotproduct"}
PineconeCreateCheck(name, dimension, metric) ==
    IF name = "" THEN <<"Index name cannot be empty">>
    ELSE IF dimension < 1 THEN <<"Dimension must be greater than 0">>
    ELSE IF metric \notin ValidMetrics
    THEN <<"Metric must be one of: ", "cosine, euclidean, dotproduct">>
    ELSE NoError

\* PineconeCreateArgs that leaves metric at the default "cosine"
PineconeCreateArgs_DefaultMetric(name, dimension, metric) ==
    [name |-> name, dimension |-> dimension, metric |-> "cosine"]

\* Pinecone.create_index: the arguments of self._client.create_index
PineconeCreateArgs(name, dimension, metric) ==
    [name |-> name, dimension |-> dimension, metric |-> metric]

\* Pinecone.create_index from the provider call on
PineconeCreateOutcome(r) ==
    IF r.exc = NoExc THEN Returned("None")
    ELSE Raised("ProviderError", <<"Failed to create index: ", r.exc.msg>>)

\* Pinecone.delete_index from the provider call on
PineconeDeleteOutcome(r) ==
    IF r.exc = NoExc THEN Returned("None")
    ELSE Raised("ProviderError", <<"Failed to delete index: ", r.exc.msg>>)

\* Pinecone.Index from the provider call on
PineconeIndexOutcome(r) ==
    IF r.exc = NoExc THEN Returned(r.ret)
    ELSE Raised("ProviderError", <<"Failed to get index: ", r.exc.msg>>)

\* -------------------------------------------------------------------- calls
Rest == <<providers, adapter, canned, registered, threads>>

\* The history of successful upserts into n: each id with the record last upserted.
RECURSIVE Latest(_, _, _)
Latest(h, vectors, i) ==
    IF i > Len(vectors) THEN h
    ELSE Latest(Put(h, vectors[i].id,
                    [values |-> vectors[i].values.items, metadata |-> vectors[i].metadata]),
                vectors, i + 1)
Record(history, n, vectors) ==
    Put(history, n, Latest(IF n \in DOMAIN history THEN history[n] ELSE <<>>, vectors, 1))

\* PineconeIndex.upsert(vectors) on the index handle for n
PineconeIndex_upsert(n, vectors) ==
    /\ last = Idle /\ adapter = "pinecone" /\ n \in handles
    /\ LET prep == PineconeUpsertPrepare(vectors)
           args == [n |-> n, vectors |-> vectors]
       IN  IF prep.kind # "ok"
           THEN /\ last' = Call("upsert", args, prep, <<>>)
                /\ UNCHANGED <<colls, upserted>>
           ELSE \E r \in ProviderIndexUpsert(colls, n, prep.value) :
                /\ colls' = r.state
                /\ upserted' = IF r.exc = NoExc THEN Record(upserted, n, vectors) ELSE upserted
                /\ last' = Call("upsert", args, PineconeUpsertOutcome(r),
                                <<Sent("upsert", [vectors |-> prep.value], r)>>)
    /\ UNCHANGED <<handles, Rest>>

\* PineconeIndex.query(vector, top_k) on the index handle for n
PineconeIndex_query(n, vector, top_k) ==
    /\ last = Idle /\ adapter = "pinecone" /\ n \in handles
    /\ LET e == PineconeQueryCheck(vector, top_k)
           args == [n |-> n, vector |-> vector, top_k |-> top_k]
           pargs == PineconeQueryArgs(vector, top_k)
       IN  IF e # NoError
           THEN last' = Call("query", args, Raised("ValidationError", e), <<>>)
           ELSE \E r \in ProviderIndexQuery(colls, n, pargs.vector, pargs.top_k) :
                last' = Call("query", args, PineconeQueryOutcome(r),
                             <<Sent("query", pargs, r)>>)
    /\ UNCHANGED <<colls, handles, upserted, Rest>>

\* ChromaCollection.upsert(vectors) on the collection handle for n
ChromaCollection_upsert(n, vectors) ==
    /\ last = Idle /\ adapter = "chroma" /\ n \in handles
    /\ LET prep == ChromaUpsertPrepare(vectors)
           args == [n |-> n, vectors |-> vectors]
       IN  IF prep.kind # "ok"
           THEN /\ last' = Call("upsert", args, prep, <<>>)
                /\ UNCHANGED <<colls, upserted>>
           ELSE \E r \in ProviderCollectionAdd(colls, n, prep.value) :
                /\ colls' = r.state
                /\ upserted' = IF r.exc = NoExc THEN Record(upserted, n, vectors) ELSE upserted
                /\ last' = Call("upsert", args, ChromaUpsertOutcome(r),
                                <<Sent("add", prep.value, r)>>)
    /\ UNCHANGED <<handles, Rest>>

\* ChromaCollection.query(vector, top_k) on the collection handle for n
ChromaCollection_query(n, vector, top_k) ==
    /\ last = Idle /\ adapter = "chroma" /\ n \in handles
    /\ LET e == ChromaQueryCheck(vector, top_k)
           args == [n |-> n, vector |-> vector, top_k |-> top_k]
           pargs == ChromaQueryArgs(vector, top_k)
       IN  IF e # NoError
           THEN last' = Call("query", args, Raised("ValidationError", e), <<>>)
           ELSE \E r \in ProviderCollectionQuery(colls, canned, n,
                                                 pargs.query_embeddings[1], pargs.n_results) :
                last' = Call("query", args, ChromaQueryOutcome(r),
                             <<Sent("query", pargs, r)>>)
    /\ UNCHANGED <<colls, handles, upserted, Rest>>

\* ChromaClient.get_or_create_collection(name)
ChromaClient_get_or_create_collection(name) ==
    /\ last = Idle /\ adapter = "chroma"
    /\ LET args == [name |-> name]
           cosine == [name |-> name, metadata |-> "hnsw:space=cosine"]
       IN  IF name = ""
           THEN /\ last' = Call("get_or_create_collection", args,
                                Raised("ValidationError", <<"Collection name cannot be empty">>),
                                <<>>)
                /\ UNCHANGED <<colls, handles, upserted>>
           ELSE \E r \in ProviderGetCollection(colls, name) :
                IF ChromaLookupCreates(r)
                THEN \E c \in ProviderCreateCollection(r.state, name) :
                     /\ colls' = c.state
                     /\ upserted' = IF c.exc = NoExc THEN Put(upserted, name, <<>>) ELSE upserted
                     /\ handles' = IF c.exc = NoExc THEN handles \cup {name} ELSE handles
                     /\ last' = Call("get_or_create_collection", args,
                                     ChromaGetOrCreateOutcome(c),
                                     <<Sent("get_collection", args, r),
                                       Sent("create_collection", cosine, c)>>)
                ELSE /\ colls' = r.state
                     /\ UNCHANGED upserted
                     /\ handles' = IF r.exc = NoExc THEN handles \cup {name} ELSE handles
                     /\ last' = Call("get_or_create_collection", args,
                                     ChromaGetOrCreateOutcome(r),
                                     <<Sent("get_collection", args, r)>>)
    /\ UNCHANGED Rest

\* ChromaClient.delete_collection(name)
ChromaClient_delete_collection(name) ==
    /\ last = Idle /\ adapter = "chroma"
    /\ LET args == [name |-> name]
       IN  IF name = ""
           THEN /\ last' = Call("delete_collection", args,
                                Raised("ValidationError", <<"Collection name cannot be empty">>),
                                <<>>)
                /\ UNCHANGED <<colls, upserted>>
           ELSE \E r \in ProviderDeleteCollection(colls, name) :
                /\ colls' = r.state
                /\ upserted' = IF r.exc = NoExc THEN Remove(upserted, name) ELSE upserted
                /\ last' = Call("delete_collection", args, ChromaDeleteOutcome(r),
                                <<Sent("delete_collection", args, r)>>)
    /\ UNCHANGED <<handles, Rest>>

\* Pinecone.list_indexes()
Pinecone_list_indexes ==
    /\ last = Idle /\ adapter = "pinecone"
    /\ \E r \in ProviderListIndexes(colls) :
          last' = Call("list_indexes", <<>>, PineconeListOutcome(r),
                       <<Sent("list_indexes", <<>>, r)>>)
    /\ UNCHANGED <<colls, handles, upserted, Rest>>

\* Pinecone.create_index(name, dimension, metric)
Pinecone_create_index(name, dimension, metric) ==
    /\ last = Idle /\ adapter = "pinecone"
    /\ LET e == PineconeCreateCheck(name, dimension, metric)
           args == [name |-> name, dimension |-> dimension, metric |-> metric]
           pargs == PineconeCreateArgs(name, dimension, metric)
       IN  IF e # NoError
           THEN /\ last' = Call("create_index", args, Raised("ValidationError", e), <<>>)
                /\ UNCHANGED <<colls, upserted>>
           ELSE \E r \in ProviderCreateIndex(colls, pargs.name, pargs.dimension) :
                /\ colls' = r.state
                /\ upserted' = IF r.exc = NoExc THEN Put(upserted, name, <<>>) ELSE upserted
                /\ last' = Call("create_index", args, PineconeCreateOutcome(r),
                                <<Sent("create_index", pargs, r)>>)
    /\ UNCHANGED <<handles, Rest>>

\* Pinecone.delete_index(name)
Pinecone_delete_index(name) ==
    /\ last = Idle /\ adapter = "pinecone"
    /\ LET args == [name |-> name]
       IN  IF name = ""
           THEN /\ last' = Call("delete_index", args,
                                Raised("ValidationError", <<"Index name cannot be empty">>), <<>>)
                /\ UNCHANGED <<colls, upserted>>
           ELSE \E r \in ProviderDeleteIndex(colls, name) :
                /\ colls' = r.state
                /\ upserted' = IF r.exc = NoExc THEN Remove(upserted, name) ELSE upserted
                /\ last' = Call("delete_index", args, PineconeDeleteOutcome(r),
                                <<Sent("delete_index", args, r)>>)
    /\ UNCHANGED <<handles, Rest>>

\* Pinecone.Index(name)
Pinecone_Index(name) ==
    /\ last = Idle /\ adapter = "pinecone"
    /\ LET args == [name |-> name]
       IN  IF name = ""
           THEN /\ last' = Call("Index", args,
                                Raised("ValidationError", <<"Index name cannot be empty">>), <<>>)
                /\ UNCHANGED handles
           ELSE \E r \in ProviderIndex(colls, name) :
                /\ handles' = IF r.exc = NoExc THEN handles \cup {name} ELSE handles
                /\ last' = Call("Index", args, PineconeIndexOutcome(r),
                                <<Sent("Index", args, r)>>)
    /\ UNCHANGED <<colls, upserted, Rest>>

\* Threads that share one ChromaClient, and a thread that is in no call.
Threads == {"t1", "t2"}
NotCalling == [pc |-> "idle", name |-> "", absent |-> FALSE, sent |-> <<>>,
               out |-> Returned("None")]

NoResponse == [ids |-> <<>>, metadatas |-> <<>>, distances |-> <<>>, stub |-> FALSE]

Init ==
    /\ providers = <<>>
    /\ adapter \in {"pinecone", "chroma"}
    /\ colls = <<>>
    /\ handles = {}
    /\ canned = NoResponse
    /\ upserted = <<>>
    /\ registered = <<>>
    /\ threads = [t \in Threads |-> NotCalling]
    /\ last = Idle

NextRegistry ==
    \/ last = Idle /\ \E name \in Names, cls \in Classes : register(name, cls)
    \/ last = Idle /\ \E name \in Names : get(name)
    \/ last = Idle /\ \E name \in Names : get_provider(name)
    \/ list_providers
    \/ Return

SpecRegistry == Init /\ [][NextRegistry]_vars

\* A call starts only when no call is in progress (last = Idle), on a handle the
\* caller holds, with the client the adapter provides.
Next ==
    \/ last = Idle /\ adapter = "pinecone" /\
         \E n \in handles, vectors \in Batches : PineconeIndex_upsert(n, vectors)
    \/ last = Idle /\ adapter = "pinecone" /\
         \E n \in handles, vector \in QueryVectors, top_k \in TopKs :
            PineconeIndex_query(n, vector, top_k)
    \/ last = Idle /\ adapter = "chroma" /\
         \E n \in handles, vectors \in Batches : ChromaCollection_upsert(n, vectors)
    \/ last = Idle /\ adapter = "chroma" /\
         \E n \in handles, vector \in QueryVectors, top_k \in TopKs :
            ChromaCollection_query(n, vector, top_k)
    \/ \E name \in CollNames : ChromaClient_get_or_create_collection(name)
    \/ \E name \in CollNames : ChromaClient_delete_collection(name)
    \/ Pinecone_list_indexes
    \/ last = Idle /\ adapter = "pinecone" /\
         \E name \in CollNames, dimension \in Dimensions, metric \in Metrics :
            Pinecone_create_index(name, dimension, metric)
    \/ \E name \in CollNames : Pinecone_delete_index(name)
    \/ \E name \in CollNames : Pinecone_Index(name)
    \/ Return

Spec == Init /\ [][Next]_vars

\* ChromaCollection.query over a stubbed collection, as the test fixture
\* chroma_client sets it up: collection.query returns a canned response.
Distances == {0, 1, 15, -5}
CannedResponses ==
    [ids : SeqsUpTo(Ids, MaxMatches), metadatas : SeqsUpTo(Metas, MaxMatches),
     distances : SeqsUpTo(Distances, MaxMatches), stub : {TRUE}]

InitFormat ==
    /\ providers = <<>>
    /\ adapter = "chroma"
    /\ colls = [n \in {"c"} |-> EmptyColl(0)]
    /\ handles = {"c"}
    /\ canned \in CannedResponses
    /\ upserted = [n \in {"c"} |-> <<>>]
    /\ registered = <<>>
    /\ threads = [t \in Threads |-> NotCalling]
    /\ last = Idle

NextFormat ==
    \/ last = Idle /\
         \E n \in handles, e \in Embeddings, top_k \in 1 .. MaxTopK :
            ChromaCollection_query(n, PyList(e), top_k)
    \/ Return

SpecFormat == InitFormat /\ [][NextFormat]_vars

\* ------------------------------------------- get_or_create_collection, by steps
\* The handler takes no lock, so between its provider calls other threads run.
\* pc: "idle" (no call), "lookup" (before get_collection), "create" (in the
\* except ValueError clause, before create_collection), "done" (returned or
\* raised).  absent notes whether the collection was missing when the call began.
RaceNames == {"", "c", "d"}

\* the call begins: the check of name
GetOrCreate_begin(t, name) ==
    /\ threads[t].pc = "idle"
    /\ threads' = [threads EXCEPT ![t] =
          IF name = ""
          THEN [pc |-> "done", name |-> name, absent |-> FALSE, sent |-> <<>>,
                out |-> Raised("ValidationError", <<"Collection name cannot be empty">>)]
          ELSE [pc |-> "lookup", name |-> name, absent |-> name \notin DOMAIN colls,
                sent |-> <<>>, out |-> Returned("None")]]
    /\ UNCHANGED <<providers, adapter, colls, handles, canned, upserted, registered, last>>

\* collection = self._client.get_collection(name=name)
GetOrCreate_lookup(t) ==
    /\ threads[t].pc = "lookup"
    /\ \E r \in ProviderGetCollection(colls, threads[t].name) :
          /\ colls' = r.state
          /\ handles' = IF r.exc = NoExc THEN handles \cup {threads[t].name} ELSE handles
          /\ threads' = [threads EXCEPT ![t] =
                [pc |-> IF ChromaLookupCreates(r) THEN "create" ELSE "done",
                 name |-> @.name, absent |-> @.absent,
                 sent |-> <<Sent("get_collection", [name |-> @.name], r)>>,
                 out |-> IF ChromaLookupCreates(r) THEN @.out
                         ELSE ChromaGetOrCreateOutcome(r)]]
    /\ UNCHANGED <<providers, adapter, canned, upserted, registered, last>>

\* collection = self._client.create_collection(name=name, metadata={"hnsw:space": "cosine"})
GetOrCreate_create(t) ==
    /\ threads[t].pc = "create"
    /\ \E c \in ProviderCreateCollection(colls, threads[t].name) :
          /\ colls' = c.state
          /\ upserted' = IF c.exc = NoExc THEN Put(upserted, threads[t].name, <<>>)
                          ELSE upserted
          /\ handles' = IF c.exc = NoExc THEN handles \cup {threads[t].name} ELSE handles
          /\ threads' = [threads EXCEPT ![t] =
                [pc |-> "done", name |-> @.name, absent |-> @.absent,
                 sent |-> Append(@.sent,
                     Sent("create_collection",
                          [name |-> @.name, metadata |-> "hnsw:space=cosine"], c)),
                 out |-> ChromaGetOrCreateOutcome(c)]]
    /\ UNCHANGED <<providers, adapter, canned, registered, last>>

\* the caller takes the outcome
GetOrCreate_end(t) ==
    /\ threads[t].pc = "done"
    /\ threads' = [threads EXCEPT ![t] = NotCalling]
    /\ UNCHANGED <<providers, adapter, colls, handles, canned, upserted, registered, last>>

InitRace ==
    /\ providers = <<>>
    /\ adapter = "chroma"
    /\ colls = <<>>
    /\ handles = {}
    /\ canned = NoResponse
    /\ upserted = <<>>
    /\ registered = <<>>
    /\ threads = [t \in Threads |-> NotCalling]
    /\ last = Idle

NextRace ==
    \/ \E t \in Threads, name \in RaceNames : GetOrCreate_begin(t, name)
    \/ \E t \in Threads : GetOrCreate_lookup(t)
    \/ \E t \in Threads : GetOrCreate_create(t)
    \/ \E t \in Threads : GetOrCreate_end(t)

SpecRace == InitRace /\ [][NextRace]_vars

\* ================================================================== claims
\* What the claims say about a call, read off `last`.
IsCall(op) == last # Idle /\ last.op = op
ResultIds == {last.out.value[i].id : i \in DOMAIN last.out.value}
Contains(msg, part) == \E i \in DOMAIN msg : msg[i] = part
StoredIn(n) == IF n \in DOMAIN colls THEN colls[n].recs ELSE <<>>
UpsertedInto(n) == IF n \in DOMAIN upserted THEN upserted[n] ELSE <<>>

\* ----------------------------------------------------------------------- C1
MalformedRecord(v) ==
    \/ ~IsDict(v)
    \/ Fields \ v.has # {}
    \/ ~IsList(v.values)
MalformedBatch(vectors) ==
    vectors = <<>> \/ \E i \in DOMAIN vectors : MalformedRecord(vectors[i])

\* C1: on both adapters, upsert of an empty batch or of a batch with a malformed
\* record at any position fails with ValidationError and issues no provider
\* call, so nothing of the batch is stored.
C1_MalformedBatchRejected ==
    (IsCall("upsert") /\ MalformedBatch(last.args.vectors)) =>
        /\ last.out.kind = "ValidationError"
        /\ last.sent = <<>>

\* A batch whose first record is well-formed and whose second is not was rejected.
C1_Witness ==
    /\ IsCall("upsert")
    /\ Len(last.args.vectors) = 2
    /\ ~MalformedRecord(last.args.vectors[1])
    /\ MalformedRecord(last.args.vectors[2])
    /\ last.out.kind = "ValidationError"

\* ----------------------------------------------------------------------- C2
InvalidQuery(vector, top_k) ==
    \/ ~IsList(vector)
    \/ vector.items = <<>>
    \/ \E i \in DOMAIN vector.items : vector.items[i].t \notin {"int", "float", "bool"}
    \/ top_k < 1

\* C2: on both adapters, query with a vector that is no list, is empty or holds
\* a non-number, or with top_k < 1, fails with ValidationError and issues no
\* provider call; a non-empty list of numbers with top_k >= 1 never fails with
\* ValidationError.
C2_QueryValidation ==
    IsCall("query") =>
        IF InvalidQuery(last.args.vector, last.args.top_k)
        THEN last.out.kind = "ValidationError" /\ last.sent = <<>>
        ELSE last.out.kind # "ValidationError"

\* A query with a good vector and top_k = 0 was rejected.
C2_Witness ==
    /\ IsCall("query")
    /\ ~InvalidQuery(last.args.vector, 1)
    /\ last.args.top_k = 0
    /\ last.out.kind = "ValidationError"

\* ----------------------------------------------------------------------- C3
\* the provider answered the deletion with its not-found error
SignalsNotFound(call) ==
    call.exc \in {NotFound(call.args.name), NoSuchCollection(call.args.name)}

\* C3: delete_collection / delete_index of a collection / index that does not
\* exist returns normally: a not-found signal of the provider is not an error.
C3_DeleteAbsentReturns ==
    ((IsCall("delete_collection") \/ IsCall("delete_index"))
        /\ last.sent # <<>> /\ SignalsNotFound(last.sent[1]))
    => last.out.kind = "ok"

\* ----------------------------------------------------------------------- C4
\* C4 as stated: every adapter call issues at most one provider call.
C4_AtMostOneCall == last # Idle => Len(last.sent) <= 1

\* C4 amended: every adapter call issues at most one provider call, except
\* get_or_create_collection, which issues the lookup and then, only when the
\* lookup raised ValueError, the create call: two calls at most.
C4_CallsBounded ==
    last # Idle =>
        /\ Len(last.sent) <= (IF last.op = "get_or_create_collection" THEN 2 ELSE 1)
        /\ Len(last.sent) = 2 =>
              /\ last.sent[1].method = "get_collection"
              /\ last.sent[1].exc.type = "ValueError"
              /\ last.sent[2].method = "create_collection"

\* get_or_create_collection looked up a missing collection and created it.
C4_Witness ==
    /\ IsCall("get_or_create_collection")
    /\ Len(last.sent) = 2
    /\ last.out.kind = "ok"

\* ----------------------------------------------------------------------- C5
\* the same name but for the case of its letters
SameIgnoringCase(a, b) ==
    /\ Len(a) = Len(b)
    /\ \A i \in DOMAIN a : a[i] = b[i] \/ {a[i], b[i]} = {"a", "A"}

\* C5: get_provider with any upper/lower-case variant of a registered name
\* returns the type registered under that name (stated for registries that
\* hold one entry for the name, whatever its case).
C5_CaseInsensitiveLookup ==
    IsCall("get_provider") =>
        \A i \in DOMAIN last.before :
            (/\ SameIgnoringCase(last.before[i].name, last.name)
             /\ \A j \in DOMAIN last.before :
                   SameIgnoringCase(last.before[j].name, last.name) => j = i)
            => last.out = Returned(last.before[i].cls)

\* ----------------------------------------------------------------------- C6
\* C6: looking up a name that is not registered fails, with ValueError from
\* get_provider (no registered name matches, whatever the case) and with
\* KeyError from ProviderRegistry.get (no registered name is equal); neither
\* returns a value nor changes the registry.
C6_UnregisteredLookupFails ==
    /\ (IsCall("get_provider")
          /\ \A i \in DOMAIN last.before : ~SameIgnoringCase(last.before[i].name, last.name))
       => (last.out.kind = "ValueError" /\ providers = last.before)
    /\ (IsCall("get")
          /\ \A i \in DOMAIN last.before : last.before[i].name # last.name)
       => (last.out.kind = "KeyError" /\ providers = last.before)

\* get_provider failed on a registry that holds other names.
C6_Witness ==
    /\ IsCall("get_provider")
    /\ last.before # <<>>
    /\ \A i \in DOMAIN last.before : ~SameIgnoringCase(last.before[i].name, last.name)
    /\ last.out.kind = "ValueError"

\* ----------------------------------------------------------------------- C7
\* C7: a query that returns yields at most top_k results and at most as many
\* as there are records upserted into the collection / index so far.
C7_ResultCountBounded ==
    (IsCall("query") /\ last.out.kind = "ok") =>
        /\ Len(last.out.value) <= last.args.top_k
        /\ Len(last.out.value) <= Cardinality(DOMAIN UpsertedInto(last.args.n))

\* A query with top_k = 1 over two upserted records returned one result.
C7_Witness ==
    /\ IsCall("query") /\ last.out.kind = "ok"
    /\ last.args.top_k = 1
    /\ Cardinality(DOMAIN UpsertedInto(last.args.n)) = 2
    /\ Len(last.out.value) = 1

AsNear(recs, id, q) ==
    {j \in (DOMAIN recs) \ {id} :
        Distance(recs[j].values, q) <= Distance(recs[id].values, q)}

C9_ResponseConverted ==
    (IsCall("query") /\ adapter = "chroma" /\ last.out.kind = "ok") =>
        LET results == last.sent[1].ret
            out == last.out.value
        IN  /\ Len(out) = Len(results.ids[1])
            /\ \A i \in DOMAIN out :
                  /\ out[i].id = results.ids[1][i]
                  /\ out[i].metadata = results.metadatas[1][i]
                  /\ out[i].score + results.distances[1][i] = One

\* A response of two matches, one at distance 0.1 and one beyond 1, was
\* converted: scores 0.9 and below 0.
C9_Witness ==
    /\ IsCall("query") /\ adapter = "chroma" /\ last.out.kind = "ok"
    /\ Len(last.out.value) = 2
    /\ last.sent[1].ret.distances[1] = <<1, 15>>
    /\ last.out.value[1].score = 9
    /\ last.out.value[2].score < 0

\* ---------------------------------------------------------------------- C10
\* C10: when upsert or query passed validation and the provider call raised,
\* the call fails with VectorOperationError and its message holds the
\* message of the provider's exception.
C10_ProviderFailureWrapped ==
    ((IsCall("upsert") \/ IsCall("query")) /\ last.sent # <<>> /\ last.sent[1].exc # NoExc)
    => /\ last.out.kind = "VectorOperationError"
       /\ Contains(last.out.msg, last.sent[1].exc.msg)

\* An upsert whose provider call raised a ValueError failed with
\* VectorOperationError.
C10_Witness ==
    /\ IsCall("upsert")
    /\ last.sent # <<>>
    /\ last.sent[1].exc.type = "ValueError"
    /\ last.out.kind = "VectorOperationError"

\* ---------------------------------------------------------------------- C11
\* C11: upsert of a well-formed batch of N >= 1 records issues exactly one
\* provider call that carries the N records in input order: Pinecone gets the
\* tuples (id, values, metadata), Chroma gets the three parallel sequences
\* ids, embeddings, metadatas.
C11_PayloadCarriesBatch ==
    (IsCall("upsert") /\ ~MalformedBatch(last.args.vectors)) =>
        LET vectors == last.args.vectors
        IN  /\ Len(last.sent) = 1
            /\ adapter = "pinecone" =>
                  /\ last.sent[1].method = "upsert"
                  /\ last.sent[1].args.vectors =
                        [i \in DOMAIN vectors |->
                            <<vectors[i].id, vectors[i].values, vectors[i].metadata>>]
            /\ adapter = "chroma" =>
                  /\ last.sent[1].method = "add"
                  /\ last.sent[1].args.ids = [i \in DOMAIN vectors |-> vectors[i].id]
                  /\ last.sent[1].args.embeddings =
                        [i \in DOMAIN vectors |-> vectors[i].values]
                  /\ last.sent[1].args.metadatas =
                        [i \in DOMAIN vectors |-> vectors[i].metadata]

\* A batch of two well-formed records with different ids, values and metadata
\* went to Pinecone in one call.
C11_Witness ==
    /\ IsCall("upsert") /\ adapter = "pinecone"
    /\ Len(last.args.vectors) = 2
    /\ ~MalformedBatch(last.args.vectors)
    /\ last.args.vectors[1].id # last.args.vectors[2].id
    /\ last.args.vectors[1].values # last.args.vectors[2].values
    /\ last.args.vectors[1].metadata # last.args.vectors[2].metadata
    /\ Len(last.sent) = 1
    /\ Len(last.sent[1].args.vectors) = 2
    /\ last.out.kind = "ok"

\* ---------------------------------------------------------------------- C12
\* C12: get_or_create_collection with an empty name fails with
\* ValidationError and no provider call.  Otherwise it looks the collection
\* up: a lookup that succeeds is returned as the handle and nothing is
\* created; a lookup that signals not-found is followed by exactly one create
\* call configured for cosine similarity, whose collection is returned; every
\* other failure of the lookup or of the create surfaces as ProviderError.
C12_GetOrCreate ==
    IsCall("get_or_create_collection") =>
        IF last.args.name = ""
        THEN last.out.kind = "ValidationError" /\ last.sent = <<>>
        ELSE /\ Len(last.sent) >= 1
             /\ last.sent[1].method = "get_collection"
             /\ last.sent[1].args.name = last.args.name
             /\ last.sent[1].exc = NoExc =>
                   Len(last.sent) = 1 /\ last.out = Returned(last.sent[1].ret)
             /\ last.sent[1].exc = NoSuchCollection(last.args.name) =>
                   /\ Len(last.sent) = 2
                   /\ last.sent[2].method = "create_collection"
                   /\ last.sent[2].args = [name |-> last.args.name,
                                           metadata |-> "hnsw:space=cosine"]
                   /\ last.sent[2].exc = NoExc => last.out = Returned(last.sent[2].ret)
                   /\ last.sent[2].exc # NoExc => last.out.kind = "ProviderError"
             /\ last.sent[1].exc \notin {NoExc, NoSuchCollection(last.args.name)} =>
                   Len(last.sent) = 1 /\ last.out.kind = "ProviderError"

\* The lookup signalled not-found and the create call that followed failed:
\* the call ended in ProviderError.
C12_Witness ==
    /\ IsCall("get_or_create_collection")
    /\ Len(last.sent) = 2
    /\ last.sent[1].exc = NoSuchCollection(last.args.name)
    /\ last.sent[2].args.metadata = "hnsw:space=cosine"
    /\ last.sent[2].exc # NoExc
    /\ last.out.kind = "ProviderError"

\* ---------------------------------------------------------------------- C13
\* C13: create_index with an empty name, a dimension below 1 or a metric
\* outside {cosine, euclidean, dotproduct} fails with ValidationError and no
\* provider call; with any other input it issues exactly one create_index
\* call with the same name, dimension and metric, and fails with
\* ProviderError when that call fails.
C13_CreateIndexValidation ==
    IsCall("create_index") =>
        IF \/ last.args.name = ""
           \/ last.args.dimension < 1
           \/ last.args.metric \notin {"cosine", "euclidean", "dotproduct"}
        THEN last.out.kind = "ValidationError" /\ last.sent = <<>>
        ELSE /\ Len(last.sent) = 1
             /\ last.sent[1].method = "create_index"
             /\ last.sent[1].args = [name |-> last.args.name,
                                     dimension |-> last.args.dimension,
                                     metric |-> last.args.metric]
             /\ last.sent[1].exc # NoExc => last.out.kind = "ProviderError"
             /\ last.sent[1].exc = NoExc => last.out.kind = "ok"

\* An index with the metric euclidean was created in one provider call.
C13_Witness ==
    /\ IsCall("create_index")
    /\ last.args.metric = "euclidean"
    /\ Len(last.sent) = 1
    /\ last.sent[1].args.metric = "euclidean"
    /\ last.out.kind = "ok"

\* ---------------------------------------------------------------------- C14
\* the lowest position (counted from 1) of a malformed record
FirstMalformed(vectors) ==
    CHOOSE i \in DOMAIN vectors :
        /\ MalformedRecord(vectors[i])
        /\ \A j \in 1 .. (i - 1) : ~MalformedRecord(vectors[j])
\* what the error says of record v: the first failing check, in the claimed order
FirstFailingCheck(v) ==
    IF ~IsDict(v) THEN " must be a dictionary"
    ELSE IF "id" \notin v.has THEN " missing 'id' field"
    ELSE IF "values" \notin v.has THEN " missing 'values' field"
    ELSE IF "metadata" \notin v.has THEN " missing 'metadata' field"
    ELSE " must be a list"

\* C14: the ValidationError of an upsert whose batch holds malformed records
\* names the lowest index of a malformed record and, for that record, the
\* first failing check in the order: not a dictionary, missing 'id', missing
\* 'values', missing 'metadata', 'values' not a list.
C14_FirstViolationReported ==
    (IsCall("upsert") /\ last.args.vectors # <<>> /\ MalformedBatch(last.args.vectors)) =>
        LET i == FirstMalformed(last.args.vectors)
        IN  /\ last.out.kind = "ValidationError"
            /\ Len(last.out.msg) = 6
            /\ last.out.msg[2] = Str(i - 1)
            /\ last.out.msg[5] = Str(i - 1)
            /\ last.out.msg[6] = FirstFailingCheck(last.args.vectors[i])

\* A well-formed record followed by one that lacks 'values' and 'metadata':
\* the error names index 1 and the field 'values'.
C14_Witness ==
    /\ IsCall("upsert")
    /\ Len(last.args.vectors) = 2
    /\ ~MalformedRecord(last.args.vectors[1])
    /\ IsDict(last.args.vectors[2])
    /\ last.args.vectors[2].has = {"id"}
    /\ last.out.kind = "ValidationError"
    /\ last.out.msg[5] = "1"
    /\ last.out.msg[6] = " missing 'values' field"

\* ---------------------------------------------------------------------- C15
\* C15: register overwrites under the exact name.  After register(name, cls)
\* the registry holds exactly one entry for name and get(name) returns cls;
\* registering a pair the registry already holds leaves the registry as it
\* was; every entry under another name, one that differs only in case
\* included, stays, and a new name adds one entry.
C15_RegisterOverwrites ==
    IsCall("register") =>
        /\ Cardinality({i \in DOMAIN providers : providers[i].name = last.name}) = 1
        /\ RegistryGet(providers, last.name) = Returned(last.cls)
        /\ [name |-> last.name, cls |-> last.cls] \in Range(last.before)
              => providers = last.before
        /\ \A i \in DOMAIN last.before :
              last.before[i].name # last.name => last.before[i] \in Range(providers)
        /\ Len(providers) =
              Len(last.before) + (IF HasKey(last.before, last.name) THEN 0 ELSE 1)

\* With "a" and "A" both registered, "A" was registered again with another
\* type: two entries remain and the entry of "a" is as it was.
C15_Witness ==
    /\ IsCall("register")
    /\ last.name = <<"A">>
    /\ HasKey(last.before, <<"a">>)
    /\ HasKey(last.before, <<"A">>)
    /\ Lookup(last.before, <<"A">>) # last.cls
    /\ Lookup(providers, <<"A">>) = last.cls
    /\ Lookup(providers, <<"a">>) = Lookup(last.before, <<"a">>)
    /\ Len(providers) = 2

\* ---------------------------------------------------------------------- C16
\* C16: list_providers returns every registered name exactly once, in the
\* order of the first registration of each name.
C16_ListInRegistrationOrder ==
    IsCall("list_providers") => last.out = Returned(registered)

\* Two names that differ only in case, registered with different types, were
\* listed in the order of their registration.
C16_Witness ==
    /\ IsCall("list_providers")
    /\ last.out.value = <<(<<"A">>), (<<"a">>)>>
    /\ last.before[1].cls # last.before[2].cls

\* ---------------------------------------------------------------------- C17
\* C17: every name ever given to register is in the registry, and get,
\* get_provider and list_providers, returning or raising, leave the registry
\* as it was.
C17_EntriesPersist ==
    /\ \A i \in DOMAIN registered : HasKey(providers, registered[i])
    /\ (IsCall("get") \/ IsCall("get_provider") \/ IsCall("list_providers"))
          => providers = last.before

\* A failing get_provider on a registry of two entries left both in place.
C17_Witness ==
    /\ IsCall("get_provider")
    /\ last.out.kind = "ValueError"
    /\ Len(registered) = 2
    /\ Len(providers) = 2

\* ---------------------------------------------------------------------- C18
\* the provider call failed for a reason of its own, not for what was asked
IsOutage(call) == call.exc.type = "ConnectionError"
\* both threads have finished a call for the same collection, which was missing
\* when each of the calls began, and no provider call met an outage
RacedFor(name) ==
    \A t \in Threads :
        /\ threads[t].pc = "done"
        /\ threads[t].name = name
        /\ threads[t].absent
        /\ \A i \in DOMAIN threads[t].sent : ~IsOutage(threads[t].sent[i])
\* the create calls of the two threads that succeeded
Creations ==
    {<<t, i>> \in Threads \X (1 .. 2) :
        /\ i \in DOMAIN threads[t].sent
        /\ threads[t].sent[i].method = "create_collection"
        /\ threads[t].sent[i].exc = NoExc}

\* C18: when two concurrent get_or_create_collection calls ask for the same
\* missing collection, both return a handle and the collection is created
\* exactly once, whatever the interleaving.
C18_BothCallsReturn ==
    \A name \in RaceNames \ {""} :
        RacedFor(name) =>
            /\ \A t \in Threads : threads[t].out.kind = "ok"
            /\ Cardinality(Creations) = 1

\* ---------------------------------------------------------------------- C19
\* C19: upsert inserts or replaces.  After any successful upserts every
\* collection / index holds one record per upserted id, with the values and
\* metadata of the latest upsert of that id, and an upsert is never refused
\* because an id is already stored.
C19_InsertOrReplace ==
    /\ \A n \in (DOMAIN colls) \cap (DOMAIN upserted) : colls[n].recs = upserted[n]
    /\ (IsCall("upsert") /\ last.sent # <<>>)
          => last.sent[1].exc.type # "IDAlreadyExistsError"


====
